---- MODULE Spec2Model ----
(***************************************************************************)
(* Model of download_net_runtime.py: the .NET runtime cache provisioner.   *)
(* The file system under Dependencies/dotnet is the state; one run of      *)
(* update_netcore_runtime is a SetupCache step followed by one             *)
(* ProcessPlatform step per requested platform.  Network and archive       *)
(* behaviour are inputs drawn from small sets.  Text (version strings,     *)
(* URLs, file contents) is modelled as sequences of one-character strings  *)
(* so that strip(), lower(), "in" and endswith() are computed.             *)
(***************************************************************************)
EXTENDS Integers, Sequences, FiniteSets, TLC

VARIABLES rootExists, versionFile, dirs, platforms, pc, i, current_version,
          run, wiped, attempts, netCalls, startDirs, startRoot, prevNetCalls,
          last, download_url

vars == <<rootExists, versionFile, dirs, platforms, pc, i, current_version,
          run, wiped, attempts, netCalls, startDirs, startRoot, prevNetCalls,
          last, download_url>>

\* ---------------------------------------------------------------- bounds
MaxLen == 2        \* longest platform list given on the command line
MaxRuns == 2       \* consecutive invocations of the script
MaxMembers == 1    \* most archive members an extraction writes

\* ------------------------------------------------------------- constants
PLATFORM_WINDOWS == "windows"
PLATFORM_LINUX == "linux"
PLATFORM_MACOS == "mac"

DOTNET_RUNTIME_VERSION == <<"1","0",".","0",".","0">>

LinuxUrl ==
    <<"h","t","t","p","s",":","/","/","b","u","i","l","d","s",".","d",
      "o","t","n","e","t",".","m","i","c","r","o","s","o","f","t",".",
      "c","o","m","/","d","o","t","n","e","t","/","R","u","n","t","i",
      "m","e","/","1","0",".","0",".","0","/","d","o","t","n","e","t",
      "-","r","u","n","t","i","m","e","-","1","0",".","0",".","0","-",
      "l","i","n","u","x","-","x","6","4",".","t","a","r",".","g","z">>
WindowsUrl ==
    <<"h","t","t","p","s",":","/","/","b","u","i","l","d","s",".","d",
      "o","t","n","e","t",".","m","i","c","r","o","s","o","f","t",".",
      "c","o","m","/","d","o","t","n","e","t","/","R","u","n","t","i",
      "m","e","/","1","0",".","0",".","0","/","d","o","t","n","e","t",
      "-","r","u","n","t","i","m","e","-","1","0",".","0",".","0","-",
      "w","i","n","-","x","6","4",".","z","i","p">>
MacUrl ==
    <<"h","t","t","p","s",":","/","/","b","u","i","l","d","s",".","d",
      "o","t","n","e","t",".","m","i","c","r","o","s","o","f","t",".",
      "c","o","m","/","d","o","t","n","e","t","/","R","u","n","t","i",
      "m","e","/","1","0",".","0",".","0","/","d","o","t","n","e","t",
      "-","r","u","n","t","i","m","e","-","1","0",".","0",".","0","-",
      "o","s","x","-","x","6","4",".","t","a","r",".","g","z">>

DOTNET_RUNTIME_DOWNLOADS ==
    (PLATFORM_LINUX :> LinuxUrl) @@ (PLATFORM_WINDOWS :> WindowsUrl)
        @@ (PLATFORM_MACOS :> MacUrl)

HtmlThreshold == 10240
TmpName == "download.tmp"

\* Identifiers that may be given on the command line; "bogus" is not a key
\* of DOTNET_RUNTIME_DOWNLOADS.
PlatformIds == {PLATFORM_LINUX, PLATFORM_WINDOWS, "bogus"}

PlatformLists == UNION {[1..n -> PlatformIds] : n \in 0..MaxLen}

\* ------------------------------------------------------------------ text
\* The characters str.isspace() holds for, as far as a string here can hold
\* them: space, \n, \t, \r, \f, \v (0x0b) and the separators 0x1c-0x1f.
\* (The spaces beyond ASCII, U+0085, U+00A0, U+1680, U+2000-U+200A, U+2028,
\* U+2029, U+202F, U+205F, U+3000, are stripped too and cannot be written.)
Whitespace ==
    {" ", "\n", "\t", "\r", "\f", "", "", "", "", ""}

RECURSIVE LStrip(_)
LStrip(s) ==
    IF s # <<>> /\ Head(s) \in Whitespace THEN LStrip(Tail(s)) ELSE s

RECURSIVE RStrip(_)
RStrip(s) ==
    IF s # <<>> /\ s[Len(s)] \in Whitespace
    THEN RStrip(SubSeq(s, 1, Len(s) - 1)) ELSE s

\* str.strip()
Strip(s) == RStrip(LStrip(s))

UpperCase == <<"A","B","C","D","E","F","G","H","I","J","K","L","M",
               "N","O","P","Q","R","S","T","U","V","W","X","Y","Z">>
LowerCase == <<"a","b","c","d","e","f","g","h","i","j","k","l","m",
               "n","o","p","q","r","s","t","u","v","w","x","y","z">>

LowerChar(c) ==
    IF \E k \in 1..Len(UpperCase) : UpperCase[k] = c
    THEN LowerCase[CHOOSE k \in 1..Len(UpperCase) : UpperCase[k] = c]
    ELSE c

\* str.lower()
Lower(s) == [k \in 1..Len(s) |-> LowerChar(s[k])]

\* "t in s" for strings
Contains(s, t) ==
    \E k \in 1..(Len(s) - Len(t) + 1) : SubSeq(s, k, k + Len(t) - 1) = t

\* s.endswith(t)
EndsWith(s, t) ==
    Len(s) >= Len(t) /\ SubSeq(s, Len(s) - Len(t) + 1, Len(s)) = t

\* --------------------------------------------------------------- inputs
\* Contents of VERSION left by an earlier invocation.
StaleVersion == <<"9",".","0",".","0">>
StoredVersions ==
    {DOTNET_RUNTIME_VERSION, DOTNET_RUNTIME_VERSION \o <<"\n">>, StaleVersion}

NoVersionFile == [present |-> FALSE, text |-> <<>>]
VersionFiles ==
    {NoVersionFile} \cup {[present |-> TRUE, text |-> t] : t \in StoredVersions}

\* Names of the top-level members an archive extraction writes, in order.
MemberNames == <<"dotnet", "host", "shared", "LICENSE.txt">>
Members(k) == {MemberNames[j] : j \in 1..k}

AbsentDir == [exists |-> FALSE, files |-> {}]
EmptyDir == [exists |-> TRUE, files |-> {}]
\* A platform directory as an earlier invocation can have left it.
InitDirStates == {AbsentDir, EmptyDir, [exists |-> TRUE, files |-> {"old"}]}

\* Downloaded payloads: what the peek reads, and the size getsize reports.
HtmlPage == <<"<","H","T","M","L",">">>
DoctypePage == <<"<","!","D","O","C","T","Y","P","E",">">>
Binary == <<"P","K">>
Contents == {HtmlPage, DoctypePage, Binary}
FileSizes == {HtmlThreshold - 1, HtmlThreshold}

\* urlretrieve: raises URLError before the temp file exists, raises
\* ContentTooShortError (a URLError) or another exception after it was
\* created, returns without a file, or returns with the file written.
NetOutcomes == {"URLError", "ContentTooShort", "OtherError", "NoFile", "OK"}
\* the peek: no error, open()/read() raises, os.remove() raises
PeekOutcomes == {"none", "open", "remove"}
\* extractall: completes, raises TarError/BadZipFile, raises another exception
ExtractOutcomes == {"ok", "Corrupt", "Unexpected"}

NoInput ==
    [net |-> "OK", size |-> HtmlThreshold, content |-> Binary,
     peek |-> "none", ext |-> "ok", written |-> 0]

Payloads ==
    [net : {"OK"}, size : FileSizes, content : Contents,
     peek : PeekOutcomes, ext : ExtractOutcomes, written : 0..MaxMembers]

\* One representative per behaviour: fields the code never looks at on a
\* path are fixed (no peek of a large file; os.remove in the peek is only
\* called after a marker was found, so only marked content can fail there).
Inputs ==
    {[NoInput EXCEPT !.net = n] : n \in NetOutcomes \ {"OK"}}
    \cup {x \in Payloads :
            /\ x.size >= HtmlThreshold => x.peek = "none"
            /\ x.content = Binary => x.peek # "remove"}

\* The inputs of the platform loop: every way urlretrieve fails, every
\* extraction result of a large binary payload, and a small HTML page that is
\* rejected or whose removal fails in the peek.
LoopInputs ==
    {x \in Inputs :
        \/ x.net # "OK"
        \/ x.size >= HtmlThreshold /\ x.content = Binary
        \/ /\ x.size < HtmlThreshold /\ x.content = HtmlPage
           /\ x.peek \in {"none", "remove"}
           /\ x.ext = "Corrupt" /\ x.written = 0}

\* ------------------------------------------------- update_netcore_runtime
NoneVersion == [some |-> FALSE, val |-> <<>>]

\* line 45: the file is opened in text mode, so read() gives every \r\n and
\* every \r left alone as \n
RECURSIVE TextRead(_)
TextRead(s) ==
    IF s = <<>> THEN <<>>
    ELSE IF Head(s) = "\r"
    THEN <<"\n">> \o TextRead(IF Len(s) >= 2 /\ s[2] = "\n"
                               THEN Tail(Tail(s)) ELSE Tail(s))
    ELSE <<Head(s)>> \o TextRead(Tail(s))

\* lines 44-49: read VERSION, None when the file is not there
ReadVersion(root, vf) ==
    IF root /\ vf.present
    THEN [some |-> TRUE, val |-> Strip(TextRead(vf.text))]
    ELSE NoneVersion

\* mutant: the version comparison is dropped from line 54
NeedsWipeAnyVersion(cur, exists) == exists

\* mutant: a missing or unreadable VERSION is not taken as a mismatch
NeedsWipeOnlyStale(cur, exists) ==
    cur.some /\ cur.val # DOTNET_RUNTIME_VERSION /\ exists

\* line 54
NeedsWipe(cur, exists) ==
    (~cur.some \/ cur.val # DOTNET_RUNTIME_VERSION) /\ exists

\* mutant: VERSION is written only when it is not there yet
WriteVersionIfMissing(vf) ==
    IF vf.present THEN vf ELSE [present |-> TRUE, text |-> DOTNET_RUNTIME_VERSION]

\* lines 62-63
WriteVersion(vf) == [present |-> TRUE, text |-> DOTNET_RUNTIME_VERSION]

\* mutant: the emptiness test of lines 82-85 is dropped
NeedsDownloadIfAbsent(d) == ~d.exists

\* lines 76-87
NeedsDownload(d) == ~d.exists \/ d.files = {}

\* ----------------------------------------------- download_platform_runtime
\* line 121
IsHtmlContent(content) ==
    \/ Contains(Lower(content), <<"h","t","m","l">>)
    \/ Contains(Lower(content), <<"<","!","d","o","c","t","y","p","e">>)

\* mutant: the size test of line 117 is inclusive
BelowThresholdInclusive(size) == size <= HtmlThreshold

\* line 117
BelowThreshold(size) == size < HtmlThreshold

\* lines 117-127: TRUE when the peek returns from the function (temp file
\* removed); FALSE when control falls through to the extraction, which
\* includes every error swallowed by the bare except.
PeekRejects(inp) ==
    /\ BelowThreshold(inp.size)
    /\ inp.peek # "open"
    /\ IsHtmlContent(inp.content)
    /\ inp.peek # "remove"

\* lines 118-125: the peek raises: open() or read() fails, or os.remove()
\* fails once a marker was found
PeekRaises(inp) ==
    /\ BelowThreshold(inp.size)
    /\ \/ inp.peek = "open"
       \/ inp.peek = "remove" /\ IsHtmlContent(inp.content)

\* mutant: the inner except clause is missing
PeekCatchesNothing(err) == FALSE

\* lines 126-127: the bare except of the peek catches whatever it raises
PeekCatches(err) == TRUE

\* mutant: the suffix tests are substring tests
ArchiveFormatContains(url) ==
    IF Contains(url, <<".","t","a","r",".","g","z">>) THEN "tar"
    ELSE IF Contains(url, <<".","z","i","p">>) THEN "zip"
    ELSE "none"

\* lines 130-139
ArchiveFormat(url) ==
    IF EndsWith(url, <<".","t","a","r",".","g","z">>) THEN "tar"
    ELSE IF EndsWith(url, <<".","z","i","p">>) THEN "zip"
    ELSE "none"

\* The class of what urlretrieve raises (line 108).
NetException(net) ==
    IF net \in {"URLError", "ContentTooShort"} THEN "URLError" ELSE "Exception"

\* The class of what extractall raises (lines 132-137).
ExtractException(fmt, ext) ==
    IF ext = "Corrupt"
    THEN (IF fmt = "tar" THEN "TarError" ELSE "BadZipFile")
    ELSE "Exception"

\* mutant: the catch-all clause of line 161 is missing
CatchesNoCatchAll(exc) == exc \in {"URLError", "TarError", "BadZipFile"}

\* lines 148, 153, 157, 161: what the except clauses of the try catch
Catches(exc) == exc \in {"URLError", "TarError", "BadZipFile", "Exception"}

\* mutant: the except clauses leave the temp file behind
HandleErrorNoCleanup(files) == files

\* the body of every except clause, lines 151-152, 155-156, 159-160, 163-164
HandleError(files) == files \ {TmpName}

\* An exception raised inside the try with the directory holding files.
Raise(files, exc, base) ==
    IF Catches(exc)
    THEN [base EXCEPT !.files = HandleError(files), !.outcome = "failed"]
    ELSE [base EXCEPT !.files = files, !.outcome = "raised", !.raised = TRUE]

\* lines 129-146, entered with the temp file in place
Extract(files, url, inp, base) ==
    LET fmt == ArchiveFormat(url)
        after == files \cup Members(inp.written)
        b == [base EXCEPT !.extract = fmt]
    IN  IF fmt = "none"
        THEN [b EXCEPT !.files = files \ {TmpName}, !.outcome = "failed"]
        ELSE IF inp.ext = "ok"
        THEN [b EXCEPT !.files = after \ {TmpName}, !.outcome = "ok"]
        ELSE Raise(after, ExtractException(fmt, inp.ext), b)

\* lines 97-164.  files: what the (existing) platform directory holds.
\* Result: the directory afterwards, whether an exception left the function,
\* and what the call did: net (urlretrieve was called), rejected (the HTML
\* check returned), extract (the extraction entered, and as what).
DownloadPlatformRuntime(files, platform, inp) ==
    IF platform \notin DOMAIN DOTNET_RUNTIME_DOWNLOADS
    THEN [files |-> files, raised |-> TRUE, outcome |-> "raised",
          net |-> FALSE, rejected |-> FALSE, extract |-> "none", url |-> <<>>]
    ELSE
    LET url == DOTNET_RUNTIME_DOWNLOADS[platform]
        \* line 108: the temp file is there once urlretrieve wrote to it, is
        \* not there when it returned without one (NoFile), and is as it was
        \* when URLError came before the file was opened
        fetched == IF inp.net \in {"OK", "ContentTooShort", "OtherError"}
                   THEN files \cup {TmpName}
                   ELSE IF inp.net = "NoFile" THEN files \ {TmpName}
                   ELSE files
        base == [files |-> fetched, raised |-> FALSE, outcome |-> "failed",
                 net |-> TRUE, rejected |-> FALSE, extract |-> "none",
                 url |-> url]
    IN  IF inp.net \in {"URLError", "ContentTooShort", "OtherError"}
        THEN Raise(fetched, NetException(inp.net), base)
        ELSE IF TmpName \notin fetched
        THEN base
        ELSE IF PeekRaises(inp) /\ ~PeekCatches(inp.peek)
        THEN Raise(fetched, "Exception", base)
        ELSE IF PeekRejects(inp)
        THEN [base EXCEPT !.files = fetched \ {TmpName}, !.rejected = TRUE]
        ELSE Extract(fetched, url, inp, base)

\* ---------------------------------------------------------------- state
IdleLog ==
    [platform |-> "", called |-> FALSE, inp |-> NoInput, outcome |-> "idle",
     net |-> FALSE, rejected |-> FALSE, extract |-> "none"]

Init ==
    /\ platforms \in PlatformLists
    /\ rootExists \in BOOLEAN
    /\ versionFile \in VersionFiles
    /\ dirs \in [PlatformIds -> InitDirStates]
    /\ ~rootExists =>
          versionFile = NoVersionFile /\ dirs = [q \in PlatformIds |-> AbsentDir]
    /\ pc = "start"
    /\ i = 1
    /\ current_version = NoneVersion
    /\ run = 1
    /\ wiped = FALSE
    /\ attempts = <<>>
    /\ netCalls = 0
    /\ startDirs = dirs
    /\ startRoot = rootExists
    /\ prevNetCalls = -1
    /\ last = IdleLog
    /\ download_url = <<>>

\* lines 34-68: version check, wipe, makedirs, version stamp, empty list
SetupCache ==
    /\ pc = "start"
    /\ LET cur == ReadVersion(rootExists, versionFile)
           wipe == NeedsWipe(cur, rootExists)
       IN  /\ current_version' = cur
           /\ wiped' = wipe
           /\ dirs' = IF wipe THEN [q \in PlatformIds |-> AbsentDir] ELSE dirs
           /\ rootExists' = TRUE
           /\ versionFile' =
                 WriteVersion(IF wipe THEN NoVersionFile ELSE versionFile)
    /\ pc' = IF platforms = <<>> THEN "done" ELSE "loop"
    /\ i' = 1
    /\ UNCHANGED <<platforms, run, attempts, netCalls, startDirs, startRoot,
                   prevNetCalls, last, download_url>>

\* mutant: the loop stays on a platform whose provisioning failed
AdvanceRetryFailed(idx, outcome) ==
    IF outcome \in {"raised", "failed"} THEN idx ELSE idx + 1

\* line 70: the for loop moves on to the next list entry, unless an
\* exception has left the loop
Advance(idx, outcome) == IF outcome = "raised" THEN idx ELSE idx + 1

\* lines 70-94: one iteration of the platform loop, the call of
\* download_platform_runtime included; the last iteration ends the run.
\* InSet: the network and archive behaviours the iteration may meet.
Iterate(InSet) ==
    /\ pc = "loop"
    /\ LET platform == platforms[i]
           d == dirs[platform]
       IN  IF ~NeedsDownload(d)
           THEN /\ last' = [IdleLog EXCEPT !.platform = platform,
                                           !.outcome = "skipped"]
                /\ i' = Advance(i, "skipped")
                /\ pc' = IF i' > Len(platforms) THEN "done" ELSE "loop"
                /\ download_url' = <<>>
                /\ UNCHANGED <<dirs, attempts, netCalls>>
           ELSE \E inp \in InSet :
                  \E r \in {DownloadPlatformRuntime(d.files, platform, inp)} :
                      /\ dirs' = [dirs EXCEPT
                                    ![platform] = [exists |-> TRUE, files |-> r.files]]
                      /\ attempts' = Append(attempts, platform)
                      /\ netCalls' = netCalls + (IF r.net THEN 1 ELSE 0)
                      /\ last' = [platform |-> platform, called |-> TRUE,
                                  inp |-> inp, outcome |-> r.outcome,
                                  net |-> r.net, rejected |-> r.rejected,
                                  extract |-> r.extract]
                      /\ download_url' = r.url
                      /\ i' = Advance(i, r.outcome)
                      /\ pc' = IF r.raised THEN "raised"
                               ELSE IF i' > Len(platforms) THEN "done" ELSE "loop"
    /\ UNCHANGED <<rootExists, versionFile, platforms, current_version, run,
                   wiped, startDirs, startRoot, prevNetCalls>>

ProcessPlatform == Iterate(LoopInputs)

\* The script is invoked again with the same arguments; nothing else touched
\* the cache in between.
NextRun ==
    /\ pc \in {"done", "raised"}
    /\ run < MaxRuns
    /\ run' = run + 1
    /\ pc' = "start"
    /\ i' = 1
    /\ current_version' = NoneVersion
    /\ wiped' = FALSE
    /\ attempts' = <<>>
    /\ netCalls' = 0
    /\ startDirs' = dirs
    /\ startRoot' = rootExists
    /\ prevNetCalls' = netCalls
    /\ last' = IdleLog
    /\ download_url' = <<>>
    /\ UNCHANGED <<rootExists, versionFile, dirs, platforms>>

Next == SetupCache \/ ProcessPlatform \/ NextRun

Spec == Init /\ [][Next]_vars

\* A single platform provisioned into an absent cache, over every input.
InitFetch ==
    /\ platforms \in [1..1 -> PlatformIds]
    /\ rootExists = FALSE
    /\ versionFile = NoVersionFile
    /\ dirs = [q \in PlatformIds |-> AbsentDir]
    /\ pc = "start"
    /\ i = 1
    /\ current_version = NoneVersion
    /\ run = 1
    /\ wiped = FALSE
    /\ attempts = <<>>
    /\ netCalls = 0
    /\ startDirs = dirs
    /\ startRoot = rootExists
    /\ prevNetCalls = -1
    /\ last = IdleLog
    /\ download_url = <<>>

FetchAndExtract == Iterate(Inputs)

NextFetch == SetupCache \/ FetchAndExtract

SpecFetch == InitFetch /\ [][NextFetch]_vars

\* URLs whose suffix is none of the two the code knows: the archive suffix
\* inside the name, another compression, another case, a short form.
UrlBase == SubSeq(LinuxUrl, 1, 58)
ZipSigUrl == UrlBase \o <<"r",".","z","i","p",".","s","i","g">>
OtherUrls ==
    {ZipSigUrl,
     UrlBase \o <<"r",".","t","a","r",".","b","z","2">>,
     UrlBase \o <<"r",".","Z","I","P">>,
     UrlBase \o <<"r",".","t","g","z">>}
TestUrls == {LinuxUrl, WindowsUrl, MacUrl} \cup OtherUrls

\* The extraction step alone (lines 129-146), entered with the temp file in
\* place, over URLs of every kind of suffix and every payload that gets as
\* far as line 129 (one the peek rejects has returned at line 125).
InitFormat ==
    /\ download_url \in TestUrls
    /\ last \in {[platform |-> PLATFORM_LINUX, called |-> TRUE, inp |-> x,
                   outcome |-> "idle", net |-> TRUE, rejected |-> FALSE,
                   extract |-> "none"] :
                      x \in {y \in Inputs : y.net = "OK" /\ ~PeekRejects(y)}}
    /\ platforms = <<PLATFORM_LINUX>>
    /\ rootExists = TRUE
    /\ versionFile = WriteVersion(NoVersionFile)
    /\ dirs = [q \in PlatformIds |->
                 IF q = PLATFORM_LINUX
                 THEN [exists |-> TRUE, files |-> {TmpName}] ELSE AbsentDir]
    /\ pc = "extract"
    /\ i = 1
    /\ current_version = NoneVersion
    /\ run = 1
    /\ wiped = FALSE
    /\ attempts = <<PLATFORM_LINUX>>
    /\ netCalls = 1
    /\ startDirs = [q \in PlatformIds |-> AbsentDir]
    /\ startRoot = FALSE
    /\ prevNetCalls = -1

ExtractArchive ==
    /\ pc = "extract"
    /\ \E r \in {Extract(dirs[last.platform].files, download_url, last.inp,
                         [files |-> dirs[last.platform].files, raised |-> FALSE,
                          outcome |-> "failed", net |-> TRUE,
                          rejected |-> FALSE, extract |-> "none",
                          url |-> download_url])} :
          /\ dirs' = [dirs EXCEPT ![last.platform] =
                                    [exists |-> TRUE, files |-> r.files]]
          /\ last' = [last EXCEPT !.outcome = r.outcome, !.extract = r.extract]
          /\ pc' = IF r.raised THEN "raised" ELSE "done"
    /\ UNCHANGED <<rootExists, versionFile, platforms, i, current_version, run,
                   wiped, attempts, netCalls, startDirs, startRoot,
                   prevNetCalls, download_url>>

NextFormat == ExtractArchive

SpecFormat == InitFormat /\ [][NextFormat]_vars

TypeOK ==
    /\ rootExists \in BOOLEAN
    /\ pc \in {"start", "loop", "extract", "done", "raised"}
    /\ run \in 1..MaxRuns
    /\ \A q \in PlatformIds : dirs[q].exists \/ dirs[q].files = {}

\* ---------------------------------------------------------------- claims
Target == [some |-> TRUE, val |-> DOTNET_RUNTIME_VERSION]
Known(platform) == platform \in DOMAIN DOTNET_RUNTIME_DOWNLOADS
Requested == {platforms[k] : k \in 1..Len(platforms)}
Attempted == {attempts[k] : k \in 1..Len(attempts)}
Populated(d) == d.exists /\ d.files # {}
RunEnded == pc \in {"done", "raised"}

\* C1: an identifier that is not a key of the download table fails for that
\* platform only: its directory is created and left empty and the run goes
\* on to the next platform (or ends normally) instead of raising.
C1_UnknownPlatformContained ==
    (last.called /\ ~Known(last.platform)) =>
        /\ dirs[last.platform] = EmptyDir
        /\ pc \in {"loop", "done"}

\* C2: whatever way the provisioning of a known platform fails, the loop
\* goes on to the next platform, and the step leaves every other platform's
\* directory as it was, so what happens to a later platform does not depend
\* on it.
C2_Isolation ==
    [][(pc = "loop" /\ Known(platforms[i])) =>
          /\ pc' = (IF i = Len(platforms) THEN "done" ELSE "loop")
          /\ i' = i + 1
          /\ \A q \in PlatformIds \ {platforms[i]} : dirs'[q] = dirs[q]]_vars

\* C2 witness: the first of two known platforms was fetched and failed, and
\* the second was provisioned after it.
C2_Witness ==
    /\ pc = "done" /\ Len(platforms) = 2 /\ platforms[1] # platforms[2]
    /\ attempts = platforms
    /\ dirs[platforms[1]] = EmptyDir
    /\ last.platform = platforms[2] /\ last.outcome = "ok"
    /\ dirs[platforms[2]].files # {}

\* C3 as stated: the second of two runs with the same platform list performs
\* no network fetch, and a first run on a single absent known platform
\* performs one.
C3_Original ==
    /\ run >= 2 => netCalls = 0
    /\ (run = 1 /\ pc = "done" /\ Len(platforms) = 1 /\ Known(platforms[1])
          /\ ~startDirs[platforms[1]].exists) => netCalls = 1

\* C3 amended: the second run performs no fetch provided the run before it
\* left every requested platform directory non-empty; a first run on a single
\* absent known platform performs one download, and the run after it
\* performs none if that run left the directory non-empty and one if it left
\* it empty.
C3_Idempotent ==
    /\ (run >= 2 /\ \A p \in Requested : Populated(startDirs[p])) =>
          (netCalls = 0 /\ attempts = <<>> /\ pc # "raised")
    /\ (run = 1 /\ pc = "done" /\ Len(platforms) = 1 /\ Known(platforms[1])
          /\ ~startDirs[platforms[1]].exists) => netCalls = 1
    /\ (run >= 2 /\ pc = "done" /\ Len(platforms) = 1 /\ Known(platforms[1])) =>
          netCalls = (IF Populated(startDirs[platforms[1]]) THEN 0 ELSE 1)

\* C3 witness: a first run that downloaded, then a finished second run over
\* the populated platform that fetched nothing.
C3_Witness ==
    /\ run = 2 /\ pc = "done" /\ Len(platforms) = 1
    /\ prevNetCalls = 1 /\ netCalls = 0
    /\ last.outcome = "skipped"
    /\ Populated(dirs[platforms[1]])

\* C4: a run that starts with an existing CacheRoot whose VERSION differs
\* from the target wipes every platform directory before any fetch and
\* attempts a fetch for every requested platform.
C4_VersionInvalidation ==
    (pc # "start" /\ startRoot /\ current_version.some /\ current_version # Target) =>
        /\ wiped
        /\ attempts = <<>> => \A q \in PlatformIds : dirs[q] = AbsentDir
        /\ RunEnded => Requested \subseteq Attempted

\* C5: once the cache-root setup is over, CacheRoot exists and VERSION holds
\* exactly the target version, whatever the cache was before and whatever
\* happens to the downloads.
C5_VersionStamped ==
    pc # "start" =>
        /\ rootExists
        /\ versionFile = [present |-> TRUE, text |-> DOTNET_RUNTIME_VERSION]

\* C5 witness: a run over an existing cache with a matching version,
\* ended with every download failed.
C5_Witness ==
    /\ pc = "done" /\ run = 1 /\ ~wiped /\ startRoot /\ Len(platforms) = 2
    /\ netCalls = 2
    /\ \A p \in Requested : dirs[p] = EmptyDir
    /\ current_version = Target

\* C6: with an empty platform list the run ends normally with no fetch and
\* no new platform directory; the directories are what the version
\* bookkeeping leaves: all gone after a wipe, unchanged when the stored
\* version matches.
C6_EmptyList ==
    platforms = <<>> =>
        /\ pc \in {"start", "done"}
        /\ attempts = <<>> /\ netCalls = 0
        /\ \A q \in PlatformIds : dirs[q].exists => startDirs[q].exists
        /\ dirs = startDirs \/ (wiped /\ dirs = [q \in PlatformIds |-> AbsentDir])
        /\ (pc = "done" /\ current_version = Target) => dirs = startDirs

\* C6 witness: an empty run ended over a matching cache that holds a
\* populated platform.
C6_Witness ==
    /\ platforms = <<>> /\ pc = "done" /\ current_version = Target
    /\ \E q \in PlatformIds : Populated(dirs[q])

\* C7: when download_platform_runtime has returned, download.tmp is not in
\* the platform directory; when the run has returned, no requested platform
\* directory holds it.
C7_TempFileRemoved ==
    /\ (last.called /\ last.outcome \in {"ok", "failed"}) =>
          TmpName \notin dirs[last.platform].files
    /\ pc = "done" => \A p \in Requested : TmpName \notin dirs[p].files

\* C7 witness: a fetch that left a partial temp file and failed, handled.
C7_Witness ==
    /\ last.called /\ last.outcome = "failed"
    /\ last.inp.net = "ContentTooShort"
    /\ pc = "done"

\* C8: a provisioning that ended in failure leaves the platform directory
\* empty, so that the next run provisions it again.
C8_FailedLeavesUnpopulated ==
    (last.called /\ last.outcome \in {"failed", "raised"}) =>
        ~Populated(dirs[last.platform])

\* C9: in a run whose stored version matches, an iteration over a populated
\* directory attempts no fetch and changes no directory, and an iteration
\* over an absent or empty directory attempts the fetch.
C9_SkipWhenPopulated ==
    [][(pc = "loop" /\ current_version = Target) =>
          IF Populated(dirs[platforms[i]])
          THEN attempts' = attempts /\ netCalls' = netCalls /\ dirs' = dirs
          ELSE attempts' = Append(attempts, platforms[i])]_vars

\* C9 witness: a matching run that fetched for an empty directory and then
\* skipped a populated one.
C9_Witness ==
    /\ pc = "done" /\ current_version = Target /\ Len(platforms) = 2
    /\ startDirs[platforms[1]] = EmptyDir
    /\ attempts = <<platforms[1]>>
    /\ last.platform = platforms[2] /\ last.outcome = "skipped"

HasMarker(content) == content \in {HtmlPage, DoctypePage}
Downloaded == last.called /\ last.net /\ last.inp.net = "OK"

\* C10 as stated: a downloaded file below 10240 bytes that holds an HTML
\* marker is deleted without extraction and the directory stays empty; a
\* file of 10240 bytes or more always goes to extraction.
C10_Original ==
    Downloaded =>
        /\ (last.inp.size < 10240 /\ HasMarker(last.inp.content)) =>
              /\ last.rejected /\ last.extract = "none"
              /\ dirs[last.platform] = EmptyDir
        /\ last.inp.size >= 10240 => (~last.rejected /\ last.extract # "none")

\* C10 amended: the same, provided the peek raised no error; when the peek
\* raises (opening, reading or removing the file), the file is not rejected
\* and the extraction is entered.
C10_HtmlPage ==
    Downloaded =>
        /\ (last.inp.size < 10240 /\ HasMarker(last.inp.content)
              /\ last.inp.peek = "none") =>
              /\ last.rejected /\ last.extract = "none"
              /\ dirs[last.platform] = EmptyDir
        /\ (last.inp.size < 10240 /\ last.inp.peek # "none") =>
              (~last.rejected /\ last.extract # "none")
        /\ last.inp.size >= 10240 => (~last.rejected /\ last.extract # "none")

\* C10 witness: a DOCTYPE page one byte under the threshold was rejected.
C10_Witness ==
    /\ Downloaded /\ last.rejected
    /\ last.inp.size = 10239 /\ last.inp.content = DoctypePage
    /\ dirs[last.platform] = EmptyDir

PeekFailed == Downloaded /\ last.inp.size < 10240 /\ last.inp.peek # "none"

\* C11: an error raised while peeking a small temp file (open, read or
\* remove) never leaves download_platform_runtime or the run: the file is not
\* rejected, the extraction is entered, and the call returns.
C11_PeekBestEffort ==
    PeekFailed =>
        /\ ~last.rejected
        /\ last.extract # "none"
        /\ last.outcome \in {"ok", "failed"}
        /\ pc = "done"
        /\ last.inp.ext = "ok" =>
              (last.outcome = "ok"
                 /\ dirs[last.platform].files = Members(last.inp.written))

\* C11 witness: the removal of a small HTML page failed in the peek and the
\* extraction that followed went through.
C11_Witness ==
    /\ PeekFailed /\ last.inp.peek = "remove" /\ last.inp.content = HtmlPage
    /\ last.outcome = "ok" /\ last.extract = "zip"
    /\ Populated(dirs[last.platform])

\* C12: the extraction is chosen by the suffix of the URL alone: .tar.gz is
\* extracted as a gzip tar, .zip as a zip, whatever the payload holds; with
\* any other suffix nothing is extracted, the temp file is removed and the
\* platform directory is left empty.
C12_FormatDispatch ==
    (pc # "extract" /\ last.called /\ last.outcome \in {"ok", "failed"}
        /\ ~last.rejected /\ last.inp.net = "OK" /\ download_url # <<>>) =>
        /\ download_url \in {LinuxUrl, MacUrl} => last.extract = "tar"
        /\ download_url = WindowsUrl => last.extract = "zip"
        /\ download_url \in OtherUrls =>
              /\ last.extract = "none" /\ last.outcome = "failed"
              /\ dirs[last.platform] = EmptyDir
        /\ last.extract # "none" =>
              dirs[last.platform].files = Members(last.inp.written)

\* C12 witness: a payload that starts like a zip, fetched from a URL with
\* .zip inside its name but another suffix, was removed without extraction.
C12_Witness ==
    /\ pc = "done" /\ download_url = ZipSigUrl
    /\ last.inp.content = Binary /\ last.inp.written = 1
    /\ last.extract = "none" /\ last.outcome = "failed"
    /\ dirs[last.platform] = EmptyDir

Count(seq, x) == Cardinality({k \in 1..Len(seq) : seq[k] = x})

RECURSIVE IsSubsequence(_, _)
IsSubsequence(a, b) ==
    IF a = <<>> THEN TRUE
    ELSE IF b = <<>> THEN FALSE
    ELSE IF Head(a) = Head(b) THEN IsSubsequence(Tail(a), Tail(b))
    ELSE IsSubsequence(a, Tail(b))

\* the list entries the loop has taken up so far
TakenUp ==
    IF pc = "start" THEN <<>>
    ELSE SubSeq(platforms, 1, IF pc = "raised" THEN i ELSE i - 1)

\* C13 as stated: no platform is fetched more than once in a run.
C13_Original ==
    \A p \in PlatformIds : Count(attempts, p) <= 1

\* C13 amended: the list entries are taken up one at a time in the order
\* given, each at most once.  A step on an entry either moves to the next
\* entry or, when an exception leaves the loop, ends the run at that entry,
\* so that no later entry is taken up.  The step fetches for its entry when
\* the platform's directory is absent or empty, also when an earlier entry
\* named the same platform, and fetches for nothing else.  So the fetches of
\* a run are, in order, a subsequence of the entries taken up: a platform is
\* fetched at most as often as it is named, and one named once at most once,
\* failed or not.
C13_Sequential ==
    /\ [](/\ IsSubsequence(attempts, TakenUp)
          /\ pc = "raised" => (Len(attempts) >= 1 /\ attempts[Len(attempts)] = platforms[i])
          /\ \A p \in PlatformIds :
                /\ Count(attempts, p) <= Count(platforms, p)
                /\ Count(platforms, p) <= 1 => Count(attempts, p) <= 1)
    /\ [][pc = "loop" =>
            /\ (pc' \in {"loop", "done"} /\ i' = i + 1)
                 \/ (pc' = "raised" /\ i' = i)
            /\ attempts' = (IF Populated(dirs[platforms[i]]) THEN attempts
                            ELSE Append(attempts, platforms[i]))]_vars
    /\ [][pc = "raised" => (pc' = "start" /\ attempts' = <<>>)]_vars

\* C13 witness: two different platforms, each fetched once and failed, in
\* the order given, and the run is over.
C13_Witness ==
    /\ pc = "done" /\ Len(platforms) = 2 /\ platforms[1] # platforms[2]
    /\ attempts = platforms /\ netCalls = 2
    /\ last.outcome = "failed"
    /\ \A p \in Requested : ~Populated(dirs[p])

AllAbsent == dirs = [q \in PlatformIds |-> AbsentDir]
Stamped == versionFile = [present |-> TRUE, text |-> DOTNET_RUNTIME_VERSION]

\* C14: a run that finds no VERSION file wipes the whole CacheRoot,
\* populated platform directories included, if CacheRoot exists, and wipes
\* nothing if CacheRoot is absent.
C14_MissingMarker ==
    (pc # "start" /\ ~current_version.some) =>
        /\ wiped <=> startRoot
        /\ (startRoot /\ attempts = <<>>) => AllAbsent
        /\ startRoot =>
              \A q \in PlatformIds \ Requested : dirs[q] = AbsentDir

\* C14 witness: a CacheRoot without VERSION that held a populated platform
\* directory has been wiped by the setup.
C14_Witness ==
    /\ pc = "loop" /\ attempts = <<>> /\ startRoot /\ ~current_version.some
    /\ wiped /\ AllAbsent
    /\ \E q \in PlatformIds : Populated(startDirs[q])

\* C15: VERSION holds the target before the first fetch and during every
\* fetch of a run, so a run after one whose downloads failed or that was
\* aborted in the loop wipes nothing and fetches only for platforms that
\* were absent or empty when it started.
C15_StampPrecedes ==
    /\ []((pc = "loop" \/ attempts # <<>>) => Stamped)
    /\ [][attempts' # attempts /\ attempts' # <<>> =>
            Stamped /\ versionFile' = versionFile]_vars
    /\ []((run >= 2 /\ pc # "start") =>
            /\ ~wiped /\ current_version = Target
            /\ \A p \in Attempted : ~Populated(startDirs[p]))

\* C15 witness: a second run after a run in which both downloads failed:
\* no wipe (an unrequested directory is still populated) and both
\* platforms fetched again.
C15_Witness ==
    /\ run = 2 /\ pc = "done" /\ prevNetCalls = 2
    /\ Len(platforms) = 2 /\ platforms[1] # platforms[2]
    /\ attempts = platforms /\ ~wiped /\ Stamped
    /\ \E q \in PlatformIds \ Requested : Populated(dirs[q])

\* C16: in a run whose stored version matches, a platform directory that is
\* not named in the list is the same after every step as before the run.
C16_UnrequestedUntouched ==
    (pc # "start" /\ current_version = Target) =>
        \A q \in PlatformIds \ Requested : dirs[q] = startDirs[q]

\* C16 witness: a matching run that ended with a failed download next to a
\* populated and an empty unrequested directory.
C16_Witness ==
    /\ pc = "done" /\ current_version = Target
    /\ last.called /\ last.outcome = "failed"
    /\ \E q \in PlatformIds \ Requested :
          Populated(dirs[q]) /\ dirs[q] = startDirs[q]
    /\ \E q \in PlatformIds \ Requested : dirs[q] = EmptyDir
====
